---- MODULE Spec2Model ----
(***************************************************************************)
(* A model of run.py: the NPC day simulation.  The state is the list of    *)
(* NPCs handed to simulate_day, the loop position of simulate_day and the  *)
(* two sources of nondeterminism of the program: the external decision     *)
(* source (crew.kickoff) and random.choice.  Strings are TLA+ strings and  *)
(* are taken apart character by character where the code does so           *)
(* (str.lower, str.replace, the substring test "in").  A confidence is     *)
(* kept in hundredths (1.0 is 100, 0.5 is 50).                             *)
(***************************************************************************)
EXTENDS Integers, Sequences, FiniteSets, TLC

VARIABLES npcs, given, hours, hour, pc, i, source, draws, last, tally, hoursDone, stats6, report, waited

vars == <<npcs, given, hours, hour, pc, i, source, draws, last, tally, hoursDone, stats6, report, waited>>

\* The longest day of the exhaustive specification (the argument hours).
MaxHours == 3

\* The default of simulate_day's argument hours, used by __main__.
DefaultHours == 24

-----------------------------------------------------------------------------
(* Python builtins used by the code *)

Max(a, b) == IF a >= b THEN a ELSE b

Min(a, b) == IF a <= b THEN a ELSE b

UpperLetters == "ABCDEFGHIJKLMNOPQRSTUVWXYZ"

LowerLetters == "abcdefghijklmnopqrstuvwxyz"

\* the upper-case letters, each a string of one character
UpperSet == {SubSeq(UpperLetters, k, k) : k \in 1..26}

\* the lower-case letter of each upper-case letter
LowerOf ==
    [c \in UpperSet |->
        LET k == CHOOSE k \in 1..26 : SubSeq(UpperLetters, k, k) = c
        IN SubSeq(LowerLetters, k, k)]

\* str.lower() on one character
LowerChar(c) == IF c \in UpperSet THEN LowerOf[c] ELSE c

\* str.replace(" ", "_") on one character
ReplaceChar(c) == IF c = " " THEN "_" ELSE c

\* Python's  sub in s  on strings
Contains(sub, s) ==
    \E k \in 1..(Len(s) - Len(sub) + 1) : SubSeq(s, k, k + Len(sub) - 1) = sub

\* The values of a list, as set(list) builds them
Range(seq) == {seq[k] : k \in 1..Len(seq)}

-----------------------------------------------------------------------------
(* Data structures *)

Personalities == {"workaholic", "lazy", "foodie", "balanced"}

\* NPCState(...) with the defaults of the class for the fields not given
NPCState(id, money, food, rest, personality, worked, history) ==
    [id |-> id, money |-> money, food |-> food, rest |-> rest,
     location |-> "Home", current_hour |-> 0, daily_hours_worked |-> worked,
     action_history |-> history, personality |-> personality]

\* Action(...); the free-text reason is left out
Action(npc_id, action, place, duration, confidence) ==
    [npc_id |-> npc_id, action |-> action, place |-> place,
     duration |-> duration, confidence |-> confidence]

\* Optional[...]: None is the empty sequence, a value v is <<v>>
None == <<>>

Some(v) == <<v>>

\* The world: place key -> Place; effects keep the order of the dict literal
WORLD ==
    [k \in {"food_store", "wooden_factory", "home", "park"} |->
       CASE k = "food_store" ->
              [name |-> "Food Store",
               actions |-> <<
                 [name |-> "eating", effects |-> << <<"food", 100>>, <<"money", -60>> >>, duration |-> 1],
                 [name |-> "parttime", effects |-> << <<"money", 20>>, <<"food", -5>>, <<"rest", -5>> >>, duration |-> 1],
                 [name |-> "shopping", effects |-> << <<"money", -5>> >>, duration |-> 1] >>]
         [] k = "wooden_factory" ->
              [name |-> "Wooden Factory",
               actions |-> <<
                 [name |-> "fulltime", effects |-> << <<"money", 20>>, <<"food", -5>>, <<"rest", -5>> >>, duration |-> 1],
                 [name |-> "chat", effects |-> << <<"rest", 5>> >>, duration |-> 1] >>]
         [] k = "home" ->
              [name |-> "Home",
               actions |-> <<
                 [name |-> "sleep", effects |-> << <<"rest", 40>> >>, duration |-> 1],
                 [name |-> "relax", effects |-> << <<"rest", 15>> >>, duration |-> 1] >>]
         [] k = "park" ->
              [name |-> "Park",
               actions |-> <<
                 [name |-> "walk", effects |-> << <<"rest", 0>>, <<"food", -5>> >>, duration |-> 1] >>]]

-----------------------------------------------------------------------------
(* The survival rule gate *)

\* a gate that sends the NPC without money to the other job
hybrid_decision_forces_fulltime(npc) ==
    IF npc.food < 15
    THEN Some(Action(npc.id, "eating", "Food Store", 1, 100))
    ELSE IF npc.rest < 20
    THEN Some(Action(npc.id, "sleep", "Home", 1, 100))
    ELSE IF npc.money < 5
    THEN Some(Action(npc.id, "fulltime", "Wooden Factory", 1, 100))
    ELSE None

\* a gate that looks for the parttime job where it is not offered
hybrid_decision_parttime_at_factory(npc) ==
    IF npc.food < 15
    THEN Some(Action(npc.id, "eating", "Food Store", 1, 100))
    ELSE IF npc.rest < 20
    THEN Some(Action(npc.id, "sleep", "Home", 1, 100))
    ELSE IF npc.money < 5
    THEN Some(Action(npc.id, "parttime", "Wooden Factory", 1, 100))
    ELSE None

\* a gate that looks at rest before food
hybrid_decision_rest_first(npc) ==
    IF npc.rest < 20
    THEN Some(Action(npc.id, "sleep", "Home", 1, 100))
    ELSE IF npc.food < 15
    THEN Some(Action(npc.id, "eating", "Food Store", 1, 100))
    ELSE IF npc.money < 5
    THEN Some(Action(npc.id, "parttime", "Food Store", 1, 100))
    ELSE None

hybrid_decision(npc) ==
    IF npc.food < 15
    THEN Some(Action(npc.id, "eating", "Food Store", 1, 100))
    ELSE IF npc.rest < 20
    THEN Some(Action(npc.id, "sleep", "Home", 1, 100))
    ELSE IF npc.money < 5
    THEN Some(Action(npc.id, "parttime", "Food Store", 1, 100))
    ELSE None

-----------------------------------------------------------------------------
(* Effect application *)

RECURSIVE KeyFrom(_, _)
\* s.lower().replace(" ", "_") from character k on: both steps work character by
\* character, and lower() neither makes nor removes a space
KeyFrom(s, k) ==
    IF k > Len(s) THEN ""
    ELSE ReplaceChar(LowerChar(SubSeq(s, k, k))) \o KeyFrom(s, k + 1)

\* place_key = action.place.lower().replace(" ", "_")
PlaceKey(place) == KeyFrom(place, 1)

\* WORLD.get(place_key), the key being computed once
LookupPlace(place) ==
    CHOOSE found \in {IF place_key \in DOMAIN WORLD THEN Some(WORLD[place_key]) ELSE None :
                         place_key \in {PlaceKey(place)}} : TRUE

\* the containment taken the other way round: the proposed name inside the
\* catalogue name
MatchesReversed(act, proposed) == act.name = proposed \/ Contains(proposed, act.name)

\* the test of the search loop:  act["name"] == action.action or act["name"] in action.action
Matches(act, proposed) == act.name = proposed \/ Contains(act.name, proposed)

\* the search loop: the first catalogue action of the place that matches
FindAction(actions, proposed) ==
    LET hits == {k \in 1..Len(actions) : Matches(actions[k], proposed)}
    IN IF hits = {} THEN None
       ELSE Some(actions[CHOOSE k \in hits : \A m \in hits : k <= m])

\* the catalogue action an Action resolves to, None when it is dropped (the
\* place unknown, or no action of the place matching)
Resolve(action) ==
    CHOOSE found \in {IF place = None THEN None
                      ELSE FindAction(place[1].actions, action.action) :
                         place \in {LookupPlace(action.place)}} : TRUE

\* a clamp with the ceiling only
ClampNoFloor(v) == Min(200, v)

\* new_value = max(0, min(200, current + change))
Clamp(v) == Max(0, Min(200, v))

RECURSIVE ApplyEffectsIfAffordable(_, _)
\* effects that leave out a change the NPC cannot afford
ApplyEffectsIfAffordable(npc, effects) ==
    IF effects = <<>> THEN npc
    ELSE ApplyEffectsIfAffordable(
             IF npc[effects[1][1]] + effects[1][2] < 0 THEN npc
             ELSE [npc EXCEPT ![effects[1][1]] = Max(0, Min(200, @ + effects[1][2]))],
             Tail(effects))

RECURSIVE ApplyEffects(_, _)
\* for stat, change in place_action["effects"].items(): setattr(npc, stat, new_value)
ApplyEffects(npc, effects) ==
    IF effects = <<>> THEN npc
    ELSE ApplyEffects([npc EXCEPT ![effects[1][1]] = Clamp(@ + effects[1][2])],
                      Tail(effects))

\* npc.location = action.place
MoveTo(npc, action) == [npc EXCEPT !.location = action.place]

\* every applied action counted as work
CountEveryAction(npc, place_action) ==
    [npc EXCEPT !.daily_hours_worked = @ + place_action.duration]

\* if place_action["name"] in ["fulltime", "parttime"]: daily_hours_worked += duration
CountWork(npc, place_action) ==
    IF place_action.name \in {"fulltime", "parttime"}
    THEN [npc EXCEPT !.daily_hours_worked = @ + place_action.duration]
    ELSE npc

\* f"H{npc.current_hour}:{place_action['name']}"
Token(h, name) == "H" \o ToString(h) \o ":" \o name

\* a history that keeps the newest token only
RecordOverwriting(npc, place_action) ==
    [npc EXCEPT !.action_history =
        <<"H" \o ToString(npc.current_hour) \o ":" \o place_action.name>>]

\* npc.action_history.append(token)
Record(npc, place_action) ==
    [npc EXCEPT !.action_history = Append(@, Token(npc.current_hour, place_action.name))]

\* an apply_action that moves the NPC before it knows the action exists
ApplyMovesFirst(npc, action, found) ==
    IF found = None THEN [npc EXCEPT !.location = action.place]
    ELSE [npc EXCEPT !.location = action.place,
                     !.action_history = Append(@, "H" \o ToString(npc.current_hour) \o ":" \o found[1].name)]

\* the part of apply_action that follows the search, for its result
Apply(npc, action, found) ==
    IF found = None THEN npc
    ELSE Record(CountWork(MoveTo(ApplyEffects(npc, found[1].effects), action), found[1]),
                found[1])

\* place_action is searched once, then used
apply_action(npc, action) ==
    CHOOSE after \in {Apply(npc, action, found) : found \in {Resolve(action)}} : TRUE

-----------------------------------------------------------------------------
(* The two outside sources of a decision *)

\* fallback_actions
fallback_actions == {"sleep", "eating", "relax", "walk"}

\* a fallback that sends eating to the Food Store
FallbackActionAtStore(npc, random_action) ==
    Action(npc.id, random_action,
           IF random_action \in {"sleep", "relax"} THEN "Home"
           ELSE IF random_action = "eating" THEN "Food Store" ELSE "Park", 1, 50)

\* the Action built in the except branch for one result of random.choice
FallbackAction(npc, random_action) ==
    Action(npc.id, random_action,
           IF random_action \in {"sleep", "relax"} THEN "Home" ELSE "Park", 1, 50)

\* a failure of the delegation (any exception inside the try block)
Failure == [kind |-> "fail"]

Proposal(action, place, duration) ==
    [kind |-> "action", action |-> Action("npc1", action, place, duration, 85)]

\* what the external decision source is made to answer: catalogue actions,
\* names that only resemble one, and places that do or do not resolve
Proposals ==
    { Proposal("fulltime", "Wooden Factory", 1),
      Proposal("parttime", "food_store", 3),
      Proposal("eating", "Food Store", 1),
      Proposal("eat", "Food Store", 1),
      Proposal("sleeping", "HOME", 1),
      Proposal("shopping", "Food Store", 1),
      Proposal("walk", "Mars", 1),
      Proposal("walk", "Park", 1),
      Proposal("relax", "Home", 1),
      Proposal("chat", "Wooden Factory", 2),
      Proposal("sleep", "Park", 1) }

-----------------------------------------------------------------------------
(* simulate_day *)

Indices == 1..Len(npcs)

Zeros == [k \in Indices |-> 0]

NoTally == [decay |-> Zeros, gate |-> Zeros, consult |-> Zeros, fallback |-> Zeros, apply |-> Zeros]

Bump(field, k) == [tally EXCEPT ![field][k] = @ + 1]

\* the decisions in a row, this one included, that have passed since the gate
\* first saw an NPC with money < 5 without the forced parttime being its
\* decision; n is the count before this decision
Waited(n, kind, before, action) ==
    IF kind = "forced" /\ action.action = "parttime" THEN 0
    ELSE IF n > 0 THEN n + 1
    ELSE IF before.money < 5 THEN 1
    ELSE 0

\* a decision loop that a dropped action ends for the hour
CallBreaksOnDrop(kind, before, action) ==
    /\ \E b \in {before}, a \in {action} :
          /\ npcs' = [npcs EXCEPT ![i] = apply_action(b, a)]
          /\ last' = Some([idx |-> i, kind |-> kind, action |-> a, before |-> b])
          /\ waited' = [waited EXCEPT ![i] = Waited(@, kind, b, a)]
    /\ IF i < Len(npcs) /\ Resolve(action) # None
       THEN /\ i' = i + 1
            /\ pc' = "decide"
       ELSE /\ i' = 1
            /\ pc' = "stats"

\* a decision loop over NPCs whose default histories are one shared list: what
\* is appended for one shows in every NPC that started with the default
CallSharedDefault(kind, before, action) ==
    /\ \E b \in {before}, a \in {action} :
          /\ npcs' = [k \in Indices |->
                        IF k = i THEN apply_action(b, a)
                        ELSE IF given[k].action_history = <<>> /\ given[i].action_history = <<>>
                        THEN [npcs[k] EXCEPT !.action_history = apply_action(b, a).action_history]
                        ELSE npcs[k]]
          /\ last' = Some([idx |-> i, kind |-> kind, action |-> a, before |-> b])
          /\ waited' = [waited EXCEPT ![i] = Waited(@, kind, b, a)]
    /\ IF i < Len(npcs)
       THEN /\ i' = i + 1
            /\ pc' = "decide"
       ELSE /\ i' = 1
            /\ pc' = "stats"

\* the call  npc = apply_action(npc, action)  of the decision loop, for NPC i
Call(kind, before, action) ==
    /\ \E b \in {before}, a \in {action} :
          /\ npcs' = [npcs EXCEPT ![i] = apply_action(b, a)]
          /\ last' = Some([idx |-> i, kind |-> kind, action |-> a, before |-> b])
          /\ waited' = [waited EXCEPT ![i] = Waited(@, kind, b, a)]
    /\ IF i < Len(npcs)
       THEN /\ i' = i + 1
            /\ pc' = "decide"
       ELSE /\ i' = 1
            /\ pc' = "stats"

\* a top of the loop body that keeps the worked hours of the day before
BeginHourNoReset ==
    /\ pc = "begin"
    /\ npcs' = npcs
    /\ pc' = "metabolism"
    /\ i' = 1
    /\ last' = None
    /\ tally' = NoTally
    /\ hoursDone' = Append(hoursDone, hour)
    /\ UNCHANGED <<given, hours, hour, source, draws, stats6, report, waited>>

\* top of the loop body: hour == 0 resets the worked hours of every NPC
BeginHour ==
    /\ pc = "begin"
    /\ npcs' = IF hour = 0
               THEN [k \in Indices |-> [npcs[k] EXCEPT !.daily_hours_worked = 0]]
               ELSE npcs
    /\ pc' = "metabolism"
    /\ i' = 1
    /\ last' = None
    /\ tally' = NoTally
    /\ hoursDone' = Append(hoursDone, hour)
    /\ UNCHANGED <<given, hours, hour, source, draws, stats6, report, waited>>

\* the metabolism loop, one NPC at a time
Metabolism ==
    /\ pc = "metabolism"
    /\ npcs' = [npcs EXCEPT ![i] = [@ EXCEPT !.food = Max(0, @ - 5), !.rest = Max(0, @ - 5)]]
    /\ tally' = Bump("decay", i)
    /\ IF i < Len(npcs)
       THEN /\ i' = i + 1
            /\ pc' = "metabolism"
       ELSE /\ i' = 1
            /\ pc' = "decide"
    /\ UNCHANGED <<given, hours, hour, source, draws, last, hoursDone, stats6, report, waited>>

\* the NPC of the decision loop after  npc.current_hour = hour
Current == [npcs[i] EXCEPT !.current_hour = hour]

\* the gate fired: the forced action is applied
Forced ==
    /\ pc = "decide"
    /\ hybrid_decision(Current) # None
    /\ Call("forced", Current, hybrid_decision(Current)[1])
    /\ tally' = [Bump("gate", i) EXCEPT !.apply[i] = @ + 1]
    /\ UNCHANGED <<given, hours, hour, source, draws, hoursDone, stats6, report>>

\* a free choice that does not wait for the gate to stay silent
FreeChoiceIgnoringGate ==
    /\ pc = "decide"
    /\ \E o \in source :
         /\ o.kind = "action"
         /\ Call("ai", Current, o.action)
    /\ tally' = [Bump("gate", i) EXCEPT !.consult[i] = @ + 1, !.apply[i] = @ + 1]
    /\ UNCHANGED <<given, hours, hour, source, draws, hoursDone, stats6, report>>

\* no rule fired and the external decision source answered with an Action
FreeChoice ==
    /\ pc = "decide"
    /\ hybrid_decision(Current) = None
    /\ \E o \in source :
         /\ o.kind = "action"
         /\ Call("ai", Current, o.action)
    /\ tally' = [Bump("gate", i) EXCEPT !.consult[i] = @ + 1, !.apply[i] = @ + 1]
    /\ UNCHANGED <<given, hours, hour, source, draws, hoursDone, stats6, report>>

\* no rule fired and the delegation failed: the random fallback is applied
Fallback ==
    /\ pc = "decide"
    /\ hybrid_decision(Current) = None
    /\ Failure \in source
    /\ \E random_action \in draws :
         Call("fallback", Current, FallbackAction(Current, random_action))
    /\ tally' = [Bump("gate", i) EXCEPT !.consult[i] = @ + 1, !.fallback[i] = @ + 1,
                                        !.apply[i] = @ + 1]
    /\ UNCHANGED <<given, hours, hour, source, draws, hoursDone, stats6, report>>

\* the 6h statistics mark of one NPC: TRUE is the skull
Dead6(npc) == npc.food < 10 \/ npc.rest < 10

\* end of the loop body: the statistics of every sixth hour, then the next hour
Statistics ==
    /\ pc = "stats"
    /\ stats6' = IF hour % 6 = 5
                 THEN Some([hour |-> hour, dead |-> [k \in Indices |-> Dead6(npcs[k])]])
                 ELSE stats6
    /\ hour' = hour + 1
    /\ pc' = IF hour + 1 < hours THEN "begin" ELSE "dayend"
    /\ UNCHANGED <<npcs, given, hours, i, source, draws, last, tally, hoursDone, report, waited>>

\* len(set(npc.action_history)) / max(1, len(npc.action_history)), as a fraction
Diversity(npc) ==
    [num |-> Cardinality(Range(npc.action_history)), den |-> Max(1, Len(npc.action_history))]

\* the day-end line of one NPC
DayEndLine(npc) ==
    [alive |-> (npc.food > 0 /\ npc.rest > 0),
     wealth |-> IF npc.money > 150 THEN "gem" ELSE IF npc.money < 30 THEN "broke" ELSE "money",
     diversity |-> Diversity(npc),
     worked |-> npc.daily_hours_worked]

DayEnd ==
    /\ pc = "dayend"
    /\ report' = [k \in Indices |-> DayEndLine(npcs[k])]
    /\ pc' = "done"
    /\ UNCHANGED <<npcs, given, hours, hour, i, source, draws, last, tally, hoursDone, stats6, waited>>

Next == BeginHour \/ Metabolism \/ Forced \/ FreeChoice \/ Fallback \/ Statistics \/ DayEnd

-----------------------------------------------------------------------------
(* Initial states *)

\* the state simulate_day starts in, for a list, a day length and the two sources
Start(list, h, src, drw) ==
    /\ npcs = list
    /\ given = list
    /\ hours = h
    /\ hour = 0
    /\ pc = IF h > 0 THEN "begin" ELSE "dayend"
    /\ i = 1
    /\ source = src
    /\ draws = drw
    /\ last = None
    /\ tally = [decay |-> [k \in 1..Len(list) |-> 0], gate |-> [k \in 1..Len(list) |-> 0],
                consult |-> [k \in 1..Len(list) |-> 0], fallback |-> [k \in 1..Len(list) |-> 0],
                apply |-> [k \in 1..Len(list) |-> 0]]
    /\ hoursDone = <<>>
    /\ stats6 = None
    /\ report = <<>>
    /\ waited = [k \in 1..Len(list) |-> 0]

\* single NPCs around the three thresholds, at both ends of the range, and
\* the NPCs of the documented scenarios
SingleNPCs ==
    {NPCState("npc1", m, f, r, "balanced", 0, <<>>) : m \in {4, 5}, f \in {19, 20}, r \in {24, 25}}
    \cup {NPCState("npc1", 0, 0, 0, "lazy", 0, <<>>),
          NPCState("npc1", 200, 200, 200, "foodie", 0, <<>>),
          NPCState("npc1", 50, 15, 55, "workaholic", 0, <<>>),
          NPCState("npc1", 50, 55, 15, "lazy", 0, <<>>),
          NPCState("npc1", 3, 55, 55, "foodie", 7, <<>>),
          NPCState("npc1", 4, 19, 24, "workaholic", 0, <<>>),
          NPCState("npc1", 50, 50, 50, "balanced", 7, <<>>)}

\* the list of __main__
ShippedNPCs ==
    << NPCState("npc1", 50, 50, 50, "workaholic", 0, <<>>),
       NPCState("npc2", 50, 50, 50, "lazy", 0, <<>>),
       NPCState("npc3", 50, 50, 50, "foodie", 0, <<>>) >>

\* a list of two NPCs, the first with the history and the worked hours of an
\* earlier day, with a source of few answers
PairNPCs ==
    << NPCState("npc1", 50, 50, 50, "workaholic", 3,
                <<"H0:fulltime", "H1:fulltime", "H2:fulltime">>),
       NPCState("npc2", 3, 19, 55, "lazy", 0, <<>>) >>

PairSource ==
    { Proposal("fulltime", "Wooden Factory", 1), Proposal("walk", "Mars", 1), Failure }

\* every answer at every call, on short days
Init ==
    \E h \in 1..MaxHours :
        \/ \E n \in SingleNPCs : Start(<<n>>, h, Proposals \cup {Failure}, fallback_actions)
        \/ Start(PairNPCs, h, PairSource, {"eating", "relax"})

\* the day of __main__, with a source that gives the same answer all day
InitDay ==
    \/ \E o \in Proposals : Start(ShippedNPCs, DefaultHours, {o}, {"sleep"})
    \/ \E d \in fallback_actions : Start(ShippedNPCs, DefaultHours, {Failure}, {d})

\* the single hours simulated from the levels below
StepHours == 1

\* levels of food and rest around the thresholds of the gate and of the
\* statistics, and at the ceiling
SurviveLevels == {10, 15, 20, 25, 30, 35, 40, 45, 50, 55, 60, 105, 200}

\* an NPC between two hours that the gate can keep fed and rested: neither
\* resource below 10, and not both so low that one forced action cannot save
\* the other
Sustained(npc) ==
    /\ npc.food >= 10
    /\ npc.rest >= 10
    /\ npc.rest < 15 => npc.food >= 20
    /\ npc.food < 15 => npc.rest >= 15

\* one NPC at any of the levels, every answer at every call
InitSurvive ==
    \E m \in {0, 5, 50, 200}, f \in SurviveLevels, r \in SurviveLevels :
        /\ Sustained(NPCState("npc1", m, f, r, "balanced", 0, <<>>))
        /\ Start(<<NPCState("npc1", m, f, r, "balanced", 0, <<>>)>>, StepHours,
                 Proposals \cup {Failure}, fallback_actions)

Spec == Init /\ [][Next]_vars

\* the day of __main__ and the single hours from every level
SpecSurvive == (InitDay \/ InitSurvive) /\ [][Next]_vars

\* the loop of simulate_day keeps running: nothing in it waits
SpecDay == InitDay /\ [][Next]_vars /\ WF_vars(Next)

\* the short days with every answer and the day of __main__ together
SpecFair == (Init \/ InitDay) /\ [][Next]_vars /\ WF_vars(Next)

-----------------------------------------------------------------------------
(* What the properties below read from the last call of apply_action *)

Called == last # None

\* the NPC as the last call of apply_action left it
After == npcs[last[1].idx]

\* the NPC as it was handed to the last call of apply_action
Before == last[1].before

Proposed == last[1].action

PlaceNames == {"Food Store", "Wooden Factory", "Home", "Park"}

-----------------------------------------------------------------------------
(* C1 *)

\* C1: in every reachable state of simulate_day, after any metabolism step and
\* after any apply_action, money, food and rest of every NPC lie in [0, 200];
\* money is floored at 0 like the other two.
C1_ResourcesInRange ==
    \A k \in Indices :
        /\ npcs[k].money \in 0..200
        /\ npcs[k].food \in 0..200
        /\ npcs[k].rest \in 0..200

\* an eating that the NPC could not pay for left money at the floor, and a
\* sleep that would pass 200 left rest at the ceiling
C1_Witness ==
    /\ Called
    /\ Resolve(Proposed) # None
    /\ Resolve(Proposed)[1].name = "eating"
    /\ Before.money < 60
    /\ Before.food > 100
    /\ After.money = 0
    /\ After.food = 200

-----------------------------------------------------------------------------
(* C2 *)

\* the forced action the claim expects for an NPC, None when no rule fires
C2_Expected(n) ==
    IF n.food < 15 THEN Some(Action(n.id, "eating", "Food Store", 1, 100))
    ELSE IF n.rest < 20 THEN Some(Action(n.id, "sleep", "Home", 1, 100))
    ELSE IF n.money < 5 THEN Some(Action(n.id, "parttime", "Food Store", 1, 100))
    ELSE None

\* C2: hybrid_decision takes the thresholds in the order food < 15 (eating at
\* Food Store), rest < 20 (sleep at Home), money < 5 (parttime at Food Store),
\* else no action, for every NPC state and personality; a forced action has
\* confidence 1.0 and duration 1; the action applied as forced is that one, and
\* the free choice and the fallback are used only when no threshold is crossed.
C2_GatePriority ==
    /\ \A k \in Indices :
         /\ hybrid_decision(npcs[k]) = C2_Expected(npcs[k])
         /\ hybrid_decision(npcs[k]) # None =>
              /\ hybrid_decision(npcs[k])[1].confidence = 100
              /\ hybrid_decision(npcs[k])[1].duration = 1
    /\ Called /\ last[1].kind = "forced" =>
         /\ Some(Proposed) = C2_Expected(Before)
         /\ \/ Before.food < 15 /\ Proposed.action = "eating" /\ Proposed.place = "Food Store"
            \/ Before.food >= 15 /\ Before.rest < 20 /\ Proposed.action = "sleep"
                 /\ Proposed.place = "Home"
            \/ Before.food >= 15 /\ Before.rest >= 20 /\ Before.money < 5
                 /\ Proposed.action = "parttime" /\ Proposed.place = "Food Store"
    /\ Called /\ last[1].kind # "forced" =>
         Before.food >= 15 /\ Before.rest >= 20 /\ Before.money >= 5

\* all three thresholds are crossed at once and eating wins
C2_Witness ==
    /\ Called
    /\ last[1].kind = "forced"
    /\ Before.food < 15
    /\ Before.rest < 20
    /\ Before.money < 5
    /\ Proposed.action = "eating"
    /\ Before.personality = "workaholic"

-----------------------------------------------------------------------------
(* C3 *)

\* C3: when the place of the action handed to apply_action does not resolve to
\* a world entry, or no catalogue action of the resolved place matches its
\* name, the NPC comes back unchanged in every field.
C3_DroppedUnchanged ==
    Called /\ (LookupPlace(Proposed.place) = None
               \/ FindAction(LookupPlace(Proposed.place)[1].actions, Proposed.action) = None)
      => After = Before

\* an action at a place that is not in the world was dropped
C3_Witness ==
    /\ Called
    /\ LookupPlace(Proposed.place) = None
    /\ Proposed.place = "Mars"
    /\ After = Before

\* the other case: the place resolves and offers no such action
C3_WitnessNoAction ==
    /\ Called
    /\ LookupPlace(Proposed.place) # None
    /\ FindAction(LookupPlace(Proposed.place)[1].actions, Proposed.action) = None
    /\ After = Before

-----------------------------------------------------------------------------
(* C4 *)

\* C4: simulate_day terminates; it takes the hours 0, 1, ..., hours-1 (23 for
\* the default day) in increasing order, every NPC gets its metabolism, one
\* gate evaluation and one apply_action in every hour, and the day-end report
\* follows the last hour, whatever the decision source answers.
C4_Terminates ==
    /\ <>(pc = "done")
    /\ [](pc = "done" =>
            /\ hour = hours
            /\ hoursDone = [k \in 1..hours |-> k - 1]
            /\ Len(report) = Len(npcs))
    /\ [](pc = "stats" =>
            \A k \in Indices :
                tally.decay[k] = 1 /\ tally.gate[k] = 1 /\ tally.apply[k] = 1)
    /\ [][hour' = hour \/ (pc = "stats" /\ hour' = hour + 1)]_vars

\* the default day ended after hour 23 with a decision source that failed all day
C4_Witness ==
    /\ pc = "done"
    /\ hours = DefaultHours
    /\ Len(hoursDone) = 24
    /\ hoursDone[24] = 23
    /\ source = {Failure}
    /\ Len(npcs) = 3

-----------------------------------------------------------------------------
(* C5 *)

\* C5: applying the forced action changes the NPC by the catalogue effect with
\* clamping: eating gives food min(200, food+100), money max(0, money-60), rest
\* as it was; sleep gives rest min(200, rest+40), money and food as they were;
\* parttime gives money min(200, money+20), food max(0, food-5), rest
\* max(0, rest-5); location becomes the place of the forced action.
C5_ForcedEffects ==
    Called /\ last[1].kind = "forced" =>
        /\ Proposed.action = "eating" =>
             /\ After.food = Min(200, Before.food + 100)
             /\ After.money = Max(0, Before.money - 60)
             /\ After.rest = Before.rest
             /\ After.location = "Food Store"
        /\ Proposed.action = "sleep" =>
             /\ After.rest = Min(200, Before.rest + 40)
             /\ After.money = Before.money
             /\ After.food = Before.food
             /\ After.location = "Home"
        /\ Proposed.action = "parttime" =>
             /\ After.money = Min(200, Before.money + 20)
             /\ After.food = Max(0, Before.food - 5)
             /\ After.rest = Max(0, Before.rest - 5)
             /\ After.location = "Food Store"
        /\ Proposed.action \in {"eating", "sleep", "parttime"}

\* the scenario food=10, rest=50, money=50: eating is forced and paid with all
\* the money there is
C5_Witness ==
    /\ Called
    /\ last[1].kind = "forced"
    /\ Proposed.action = "eating"
    /\ Before.food = 10
    /\ Before.rest = 50
    /\ Before.money = 50
    /\ After.food = 110
    /\ After.money = 0

-----------------------------------------------------------------------------
(* C6 *)

\* C6: daily_hours_worked becomes 0 for every NPC at the top of hour 0, is not
\* reset in any other hour, is left alone by the metabolism, and a call of
\* apply_action adds 1 (the catalogue duration) to the NPC it is called for
\* exactly when the catalogue action applied is fulltime or parttime.
C6_WorkedHours ==
    [][\A k \in Indices :
         LET w == npcs[k].daily_hours_worked
             w2 == npcs'[k].daily_hours_worked
         IN /\ (pc = "begin" /\ hour = 0) => w2 = 0
            /\ (pc = "begin" /\ hour # 0) => w2 = w
            /\ pc \in {"metabolism", "stats", "dayend", "done"} => w2 = w
            /\ pc = "decide" =>
                 w2 = IF /\ k = i
                         /\ Resolve(last'[1].action) # None
                         /\ Resolve(last'[1].action)[1].name \in {"fulltime", "parttime"}
                      THEN w + 1
                      ELSE w]_vars

\* a parttime proposed with duration 3 counted as one hour, in a day that
\* started with hours left over from before
C6_Witness ==
    /\ Called
    /\ Proposed.action = "parttime"
    /\ Proposed.duration = 3
    /\ hour = 0
    /\ After.daily_hours_worked = 1
    /\ Before.daily_hours_worked = 0

-----------------------------------------------------------------------------
(* C7 *)

\* C7: after a failed delegation the source is not asked again in that hour;
\* the substitute is one of sleep, eating, relax, walk with confidence 0.5 and
\* duration 1, at Home for sleep and relax and at Park for eating and walk, and
\* it is handed to apply_action for the same NPC in the same hour.
C7_FallbackAction ==
    Called /\ last[1].kind = "fallback" =>
        /\ Proposed.action \in {"sleep", "eating", "relax", "walk"}
        /\ Proposed.confidence = 50
        /\ Proposed.duration = 1
        /\ Proposed.action \in {"sleep", "relax"} => Proposed.place = "Home"
        /\ Proposed.action \in {"eating", "walk"} => Proposed.place = "Park"
        /\ tally.consult[last[1].idx] = 1
        /\ tally.fallback[last[1].idx] = 1
        /\ tally.apply[last[1].idx] = 1
        /\ Before.current_hour = hoursDone[Len(hoursDone)]
        /\ After = apply_action(Before, Proposed)

\* the fallback drew eating and placed it at the Park
C7_Witness ==
    /\ Called
    /\ last[1].kind = "fallback"
    /\ Proposed.action = "eating"
    /\ Proposed.place = "Park"
    /\ Proposed.confidence = 50

-----------------------------------------------------------------------------
(* C8 *)

\* the catalogue actions of the place of the last call (the place resolves)
C8_Catalogue == LookupPlace(Proposed.place)[1].actions

\* the last call appended the token of the catalogue action named name
C8_Applied(name) ==
    /\ After.action_history =
         Append(Before.action_history, Token(Before.current_hour, name))
    /\ After.location = Proposed.place

\* C8 as stated: a catalogue action is selected when its name equals the
\* proposed name or the proposed name is a substring of the catalogue name, and
\* a proposed name that neither equals nor is contained in a catalogue name of
\* the place is dropped.
C8_ProposedInsideCatalogue ==
    Called /\ LookupPlace(Proposed.place) # None =>
        LET acts == C8_Catalogue
            hits == {k \in 1..Len(acts) :
                        \/ acts[k].name = Proposed.action
                        \/ Contains(Proposed.action, acts[k].name)}
        IN IF hits = {} THEN After = Before ELSE \E k \in hits : C8_Applied(acts[k].name)

\* C8 amended: a catalogue action is selected when its name equals the proposed
\* name or is a substring of the proposed name (the first such action of the
\* place is applied); a proposed name that neither equals nor contains a
\* catalogue name of the place is dropped.
C8_CatalogueInsideProposed ==
    Called /\ LookupPlace(Proposed.place) # None =>
        LET acts == C8_Catalogue
            hits == {k \in 1..Len(acts) :
                        \/ acts[k].name = Proposed.action
                        \/ Contains(acts[k].name, Proposed.action)}
        IN IF hits = {} THEN After = Before
           ELSE C8_Applied(acts[CHOOSE k \in hits : \A m \in hits : k <= m].name)

\* "sleeping" was proposed and the catalogue action sleep was applied
C8_Witness ==
    /\ Called
    /\ Proposed.action = "sleeping"
    /\ LookupPlace(Proposed.place) # None
    /\ After.action_history = Append(Before.action_history, Token(Before.current_hour, "sleep"))
    /\ After.rest = Min(200, Before.rest + 40)

-----------------------------------------------------------------------------
(* C9 *)

\* the action name of a history token: what follows the first colon
TokenName(t) ==
    LET c == CHOOSE k \in 1..Len(t) :
                 /\ SubSeq(t, k, k) = ":"
                 /\ \A m \in 1..(k - 1) : SubSeq(t, m, m) # ":"
    IN SubSeq(t, c + 1, Len(t))

\* C9: the action diversity reported at day end equals the number of distinct
\* action names the NPC performed divided by the number of actions it
\* performed (for an NPC whose history starts empty, so that the history holds
\* the day).
C9_DiversityOfNames ==
    pc = "done" =>
        \A k \in Indices :
            given[k].action_history = <<>> /\ Len(npcs[k].action_history) > 0 =>
                report[k].diversity.num * Len(npcs[k].action_history)
                  = Cardinality({TokenName(t) : t \in Range(npcs[k].action_history)})
                      * report[k].diversity.den

-----------------------------------------------------------------------------
(* C10 *)

\* C10: in every reachable state the location of every NPC is one of the place
\* names Food Store, Wooden Factory, Home, Park.
C10_LocationIsPlaceName ==
    \A k \in Indices : npcs[k].location \in PlaceNames

-----------------------------------------------------------------------------
(* C11 *)

\* the tokens NPC k got since simulate_day started
DayTokens(k) ==
    SubSeq(npcs[k].action_history, Len(given[k].action_history) + 1,
           Len(npcs[k].action_history))

\* the hour of a history token: the number between the H and the first colon
TokenHour(t) ==
    CHOOSE h \in 0..DefaultHours :
        /\ Len(t) >= Len(ToString(h)) + 2
        /\ SubSeq(t, 1, Len(ToString(h)) + 2) = "H" \o ToString(h) \o ":"

\* C11: the action history is append-only: a step changes the history of an
\* NPC only by appending, to the NPC the decision is for, one token made of the
\* current hour and the matched catalogue name, and it does so exactly when the
\* action is applied (a dropped action appends nothing); so the history keeps
\* what it held at the start, and the tokens of the day are at most one per
\* hour begun, with strictly increasing hours.
C11_AppendOnly ==
    /\ [][\A k \in Indices :
            npcs'[k].action_history =
                IF pc = "decide" /\ k = i /\ Resolve(last'[1].action) # None
                THEN Append(npcs[k].action_history,
                            Token(hour, Resolve(last'[1].action)[1].name))
                ELSE npcs[k].action_history]_vars
    /\ [](\A k \in Indices :
            /\ Len(npcs[k].action_history) >= Len(given[k].action_history)
            /\ SubSeq(npcs[k].action_history, 1, Len(given[k].action_history))
                 = given[k].action_history
            /\ Len(DayTokens(k)) <= Len(hoursDone)
            /\ \A m \in 1..Len(DayTokens(k)) :
                 /\ TokenHour(DayTokens(k)[m]) \in Range(hoursDone)
                 /\ m > 1 => TokenHour(DayTokens(k)[m - 1]) < TokenHour(DayTokens(k)[m]))

\* an NPC that came with three tokens has five in the third hour: two actions
\* were applied and appended, one was dropped
C11_Witness ==
    /\ Len(given[1].action_history) = 3
    /\ Len(npcs[1].action_history) = 5
    /\ Len(hoursDone) = 3
    /\ pc = "stats"
    /\ TokenHour(npcs[1].action_history[5]) = 2

-----------------------------------------------------------------------------
(* C12 *)

\* C12: NPCs do not interfere: in every step the new state of an NPC is a
\* function of its own old state, the hour and the action proposed for it.
\* The decision step and the metabolism step of NPC i leave every other NPC
\* as it is, the history of an NPC that started with the default empty
\* history included.
C12_NoInterference ==
    [][/\ Len(npcs') = Len(npcs)
       /\ \A k \in Indices :
            npcs'[k] =
              CASE pc = "begin" /\ hour = 0 ->
                     [npcs[k] EXCEPT !.daily_hours_worked = 0]
                [] pc = "metabolism" /\ k = i ->
                     [npcs[k] EXCEPT !.food = Max(0, @ - 5), !.rest = Max(0, @ - 5)]
                [] pc = "decide" /\ k = i ->
                     apply_action([npcs[k] EXCEPT !.current_hour = hour], last'[1].action)
                [] OTHER -> npcs[k]]_vars

\* of three NPCs created with the default history, the first has its token of
\* hour 0 and the other two still have none
C12_Witness ==
    /\ Len(npcs) = 3
    /\ \A k \in Indices : given[k].action_history = <<>>
    /\ Called
    /\ last[1].idx = 1
    /\ Len(npcs[1].action_history) = 1
    /\ npcs[2].action_history = <<>>
    /\ npcs[3].action_history = <<>>

\* of two different NPCs the first has acted and the second acts differently
C12_WitnessPair ==
    /\ Len(npcs) = 2
    /\ Called
    /\ last[1].idx = 2
    /\ Len(npcs[1].action_history) = 4
    /\ Len(npcs[2].action_history) = 1
    /\ npcs[1].location # npcs[2].location

-----------------------------------------------------------------------------
(* C13 *)

\* C13: in every hour the food and the rest of each NPC are decayed once (by 5,
\* floored at 0, money untouched) before its gate is evaluated, and the gate
\* sees the decayed values; when a rule fires the forced action is applied and
\* the decision source is not consulted; the source (or, when it fails, the
\* fallback) is consulted exactly when no rule fires; one action per NPC per
\* hour is passed to apply_action.
C13_HourOrder ==
    /\ [][/\ pc = "metabolism" =>
               /\ tally.decay[i] = 0
               /\ npcs'[i].food = Max(0, npcs[i].food - 5)
               /\ npcs'[i].rest = Max(0, npcs[i].rest - 5)
               /\ npcs'[i].money = npcs[i].money
          /\ pc = "decide" =>
               /\ tally.decay[i] = 1
               /\ tally.apply[i] = 0
               /\ last'[1].idx = i
               /\ last'[1].before = [npcs[i] EXCEPT !.current_hour = hour]]_vars
    /\ [](Called =>
            /\ last[1].kind = "forced" <=> hybrid_decision(Before) # None
            /\ last[1].kind = "forced" =>
                 /\ Proposed = hybrid_decision(Before)[1]
                 /\ tally.consult[last[1].idx] = 0
                 /\ tally.fallback[last[1].idx] = 0
            /\ last[1].kind = "ai" =>
                 /\ tally.consult[last[1].idx] = 1
                 /\ tally.fallback[last[1].idx] = 0
            /\ last[1].kind = "fallback" =>
                 /\ tally.consult[last[1].idx] = 1
                 /\ tally.fallback[last[1].idx] = 1
            /\ tally.gate[last[1].idx] = 1
            /\ tally.apply[last[1].idx] = 1
            /\ After = apply_action(Before, Proposed))
    /\ [](pc = "stats" =>
            \A k \in Indices : tally.decay[k] = 1 /\ tally.gate[k] = 1 /\ tally.apply[k] = 1)

\* food 19 before the hour is 14 at the gate: eating is forced and the decision
\* source is not asked
C13_Witness ==
    /\ Called
    /\ hoursDone = <<0>>
    /\ given[last[1].idx].food = 19
    /\ Before.food = 14
    /\ last[1].kind = "forced"
    /\ Proposed.action = "eating"
    /\ tally.consult[last[1].idx] = 0
    /\ tally.decay[last[1].idx] = 1

-----------------------------------------------------------------------------
(* C14 *)

\* C14: every action the fallback can produce is applicable: its place is in
\* the world and offers a matching catalogue action, so apply_action on a
\* fallback action appends the history token of that action for the hour.
C14_FallbackApplicable ==
    Called /\ last[1].kind = "fallback" =>
        /\ Resolve(Proposed) # None
        /\ After.action_history =
               Append(Before.action_history, Token(Before.current_hour, Proposed.action))

-----------------------------------------------------------------------------
(* C15 *)

\* C15: an NPC that starts with money 50, food 50 and rest 50 has food >= 10
\* and rest >= 10 at the end of every hour, whatever the decision source
\* answers; the 6h statistics never mark it dead and the day-end status is
\* alive.  Between two hours every NPC is Sustained, which the start 50/50/50
\* is and which every hour preserves from every level.
C15_NoStarvation ==
    /\ pc \in {"begin", "stats", "dayend", "done"} =>
          \A k \in Indices :
              /\ Sustained(npcs[k])
              /\ npcs[k].food >= 10
              /\ npcs[k].rest >= 10
    /\ stats6 # None => \A k \in Indices : ~stats6[1].dead[k]
    /\ pc = "done" => \A k \in Indices : report[k].alive

\* the day of __main__ is over: the statistics of hour 23 and the day-end
\* lines are out, after a day in which an NPC went down to rest 10
C15_Witness ==
    /\ pc = "done"
    /\ Len(given) = 3
    /\ \A k \in Indices : given[k].money = 50 /\ given[k].food = 50 /\ given[k].rest = 50
    /\ Len(hoursDone) = DefaultHours
    /\ stats6 # None
    /\ stats6[1].hour = 23
    /\ \A k \in Indices : ~stats6[1].dead[k] /\ report[k].alive

\* an hour ended at rest 10: eating was forced on an NPC at rest 10
C15_WitnessEdge ==
    /\ pc = "stats"
    /\ Called
    /\ last[1].kind = "forced"
    /\ Proposed.action = "eating"
    /\ After.rest = 10

-----------------------------------------------------------------------------
(* C16 *)

\* C16: when the gate sees an NPC with money < 5 at hour h, the forced
\* parttime is applied to it at hour h, h + 1 or h + 2: forced eating and
\* forced sleep come before it for at most two hours in total, and the forced
\* parttime of the third hour resolves and is applied.
C16_BoundedResponse ==
    /\ \A k \in Indices : waited[k] <= 2
    /\ Called /\ Before.money < 5 =>
          /\ last[1].kind = "forced"
          /\ Proposed.action \in {"eating", "sleep", "parttime"}
          /\ Proposed.action = "parttime" =>
                /\ Resolve(Proposed) # None
                /\ After.action_history =
                       Append(Before.action_history, Token(Before.current_hour, "parttime"))
                /\ After.money = Before.money + 20

\* money 4 at the gate of hour 0; eating was forced at hour 0, sleep at hour 1
\* and parttime at hour 2
C16_Witness ==
    /\ Called
    /\ given[1].money = 4
    /\ npcs[1].action_history = <<"H0:eating", "H1:sleep", "H2:parttime">>
    /\ last[1].kind = "forced"
    /\ Proposed.action = "parttime"
    /\ waited[1] = 0
    /\ hoursDone = <<0, 1, 2>>

-----------------------------------------------------------------------------
(* C17 *)

\* C17: every forced action resolves in the world and is applied, and right
\* after it the threshold that fired is cleared: food >= 100 after the forced
\* eating, rest >= 40 after the forced sleep, money >= 20 after the forced
\* parttime; so eating is never forced in the hour after an hour of eating.
C17_ForcedClears ==
    Called /\ last[1].kind = "forced" =>
        /\ Resolve(Proposed) # None
        /\ Resolve(Proposed)[1].name = Proposed.action
        /\ After.action_history =
               Append(Before.action_history, Token(Before.current_hour, Proposed.action))
        /\ Proposed.action = "eating" => After.food >= 100
        /\ Proposed.action = "sleep" => After.rest >= 40
        /\ Proposed.action = "parttime" => After.money >= 20
        /\ hybrid_decision(After) # None => hybrid_decision(After)[1].action # Proposed.action
        /\ Proposed.action = "eating" /\ Before.current_hour > 0 /\ Before.action_history # <<>> =>
               Before.action_history[Len(Before.action_history)]
                   # Token(Before.current_hour - 1, "eating")

\* eating was forced at hour 0 on an NPC without food and left food at 100;
\* at hour 1 the gate forced sleep, not eating
C17_Witness ==
    /\ Called
    /\ hoursDone = <<0, 1>>
    /\ given[1].food = 0
    /\ Before.action_history = <<"H0:eating">>
    /\ Before.food = 95
    /\ last[1].kind = "forced"
    /\ Proposed.action = "sleep"
    /\ After.rest >= 40

-----------------------------------------------------------------------------
(* C18 *)

\* the number of tokens of a history whose action name is fulltime or parttime
WorkTokens(history) ==
    Cardinality({m \in 1..Len(history) : TokenName(history[m]) \in {"fulltime", "parttime"}})

\* C18: for an NPC that starts the day with an empty history, from the top of
\* hour 0 on and at the end of every hour h, daily_hours_worked is the number
\* of history tokens named fulltime or parttime and is at most h + 1, whatever
\* duration the proposed actions carry.
C18_WorkedIsTokens ==
    hoursDone # <<>> =>
        \A k \in Indices :
            given[k].action_history = <<>> =>
                /\ npcs[k].daily_hours_worked = WorkTokens(npcs[k].action_history)
                /\ npcs[k].daily_hours_worked <= Len(hoursDone)
                /\ npcs[k].daily_hours_worked <= DefaultHours
                /\ pc = "stats" => npcs[k].daily_hours_worked <= hour + 1

\* a day that began with 7 hours left over from before: at the end of hour 1
\* the NPC has worked twice, once proposed with duration 3, and the count is 2
C18_Witness ==
    /\ pc = "stats"
    /\ hour = 1
    /\ given[1].action_history = <<>>
    /\ given[1].daily_hours_worked = 7
    /\ npcs[1].action_history = <<"H0:parttime", "H1:fulltime">>
    /\ npcs[1].daily_hours_worked = 2
    /\ Proposed.action = "fulltime"

====
